---- MODULE Spec2Model ----
(***************************************************************************)
(* Appointment booking core of gostack-gobarber.                           *)
(*                                                                         *)
(* ApointmentController.store  (src/unnamed/part_001, and the earlier      *)
(* revision src/unnamed/part_000) and ApointmentController.delete          *)
(* (src/unnamed/part_001) are async express handlers.  Every `await` is a  *)
(* point where other requests and the clock may advance, so each handler   *)
(* is cut at its awaits on shared state: one action per database, queue or *)
(* notification call together with the synchronous code that follows it.   *)
(*                                                                         *)
(* Time is counted in ticks, HourTicks ticks to the hour.  A request body  *)
(* carries its ISO date as the instant it denotes (or Missing).            *)
(***************************************************************************)
EXTENDS Integers, Sequences, FiniteSets, TLC

\* ---- bounds -------------------------------------------------------------
HourTicks == 2
MaxTime == 2
MaxDate == 6
MaxRequests == 3
MaxBookings == 2
MaxListings == 2
ScheduleDays == 2
NumProcs == 2

\* ---- program constants --------------------------------------------------
CancelLeadHours == 2
DayHours == 24

Procs == 1..NumProcs
Users == {1, 2, 3}
Providers == {2, 3}
Null == -1
Missing == -2
RawDates == 0..MaxDate

\* req.body of a booking request: well-formed, or rejected by the schema
Bodies ==
  [provider_id : Users, date : RawDates]
    \cup {[provider_id |-> Missing, date |-> Missing]}

VARIABLES
  version,        \* which revision of ApointmentController is deployed
  now,            \* the clock read by new Date()
  bookings,       \* the appointments table, indexed by id
  notifications,  \* the Notification collection
  queue,          \* jobs handed to Queue.add
  issued,         \* number of requests received so far
  proc,           \* the requests in flight: position, req and locals
  outcome,        \* what the caller of the last request on each connection got
  schedule        \* the rows the last schedule listing on each connection gave

vars == <<version, now, bookings, notifications, queue, issued, proc, outcome,
          schedule>>

NoRow == [id |-> 0, user_id |-> 0, provider_id |-> 0, date |-> Null,
          canceled_at |-> Null]

\* A connection with no request in flight.  The fields of a request:
\*   pc, handler        where it is, in store or in delete
\*   userId             req.userId
\*   provider_id, date  req.body (store)
\*   id                 req.params.id (delete)
\*   hourStart          store: const hourStart
\*   apointment         store: id of the row Apointment.create returned
\*   appointment        delete: the instance findByPk loaded
\*   readNow            the value new Date() gave the handler's time check
\*   blocker            history: the active booking on the requested slot when
\*                      the request arrived, 0 if none
\*   freed              history: the availability query found the slot free
\*                      and a cancelled booking lies on it
Idle == [pc |-> "idle", handler |-> "none", userId |-> 0, provider_id |-> 0,
         date |-> Null, id |-> 0, hourStart |-> Null, apointment |-> 0,
         appointment |-> NoRow, readNow |-> Null, blocker |-> 0,
         freed |-> FALSE]

\* ---- date-fns -----------------------------------------------------------
startOfHour_asIs(t) == t

startOfHour_next(t) == t - (t % HourTicks) + HourTicks

startOfHour(t) == t - (t % HourTicks)

DayTicks == DayHours * HourTicks

startOfDay(t) == t - (t % DayTicks)

\* endOfDay is the last instant of the day
endOfDay_nextMidnight(t) == t - (t % DayTicks) + DayTicks

endOfDay(t) == t - (t % DayTicks) + DayTicks - 1

subHours_add(t, h) == t + h * HourTicks

subHours(t, h) == t - h * HourTicks

isBefore_swapped(a, b) == b < a

isBefore(a, b) == a < b

\* ---- queries ------------------------------------------------------------
\* schema.isValid(req.body): provider_id and date are both required
isValid(body) == body.provider_id # Missing /\ body.date # Missing

\* User.findOne({ where: { id, provider: true } }) as a truth value
isProvider(id) == id \in Providers

checkAvailability_wrongColumn(provider_id, date) ==
  \E i \in DOMAIN bookings :
      /\ bookings[i].user_id = provider_id
      /\ bookings[i].canceled_at = Null
      /\ bookings[i].date = date

\* Apointment.findOne({ where: { provider_id, canceled_at: null, date } })
checkAvailability(provider_id, date) ==
  \E i \in DOMAIN bookings :
      /\ bookings[i].provider_id = provider_id
      /\ bookings[i].canceled_at = Null
      /\ bookings[i].date = date

notOwner_provider(row, userId) == row.provider_id # userId

\* delete, line 150: appointment.user_id !== req.userId
notOwner(row, userId) == row.user_id # userId

\* Apointment.findByPk(id)
findByPk(id) == IF id \in DOMAIN bookings THEN bookings[id] ELSE NoRow

\* the active booking that holds a slot, 0 if none
SlotHolder(provider_id, date) ==
  LET held == {i \in DOMAIN bookings :
                 /\ bookings[i].provider_id = provider_id
                 /\ bookings[i].canceled_at = Null
                 /\ bookings[i].date = date}
  IN IF held = {} THEN 0 ELSE CHOOSE i \in held : TRUE

Init ==
  /\ version \in {"part_000", "part_001"}
  /\ now = 0
  /\ bookings = <<>>
  /\ notifications = <<>>
  /\ queue = <<>>
  /\ issued = 0
  /\ proc = [p \in Procs |-> Idle]
  /\ outcome = [p \in Procs |-> "none"]
  /\ schedule = [p \in Procs |-> {}]

\* the clock advances between any two steps
Tick ==
  /\ now < MaxTime
  /\ now' = now + 1
  /\ UNCHANGED <<schedule, version, bookings, notifications, queue, issued, proc, outcome>>

\* the handler returns (res.json) or throws: the caller gets result and the
\* handler's locals are gone
Finish(p, result) ==
  /\ proc' = [proc EXCEPT ![p] = Idle]
  /\ outcome' = [outcome EXCEPT ![p] = result]

\* the handler goes on to its next await
Goto(p, next) ==
  /\ proc' = [proc EXCEPT ![p] = next]
  /\ UNCHANGED outcome

\* requests are taken by the first free connection
Free(p) ==
  /\ proc[p].pc = "idle"
  /\ \A q \in Procs : q < p => proc[q].pc # "idle"

\* rows in the table plus the booking requests that have not reached the end
\* of their Apointment.create (line 114) and so may still add one
Pending ==
  Len(bookings)
  + Cardinality({q \in Procs :
                   proc[q].pc \in {"findProvider", "checkAvailability", "create"}})

\* store, lines 44-55: a request arrives and its body is validated
StoreRequest(p) ==
  /\ Free(p)
  /\ issued < MaxRequests
  /\ Pending < MaxBookings
  /\ issued' = issued + 1
  /\ \E u \in Users, body \in Bodies :
       IF ~isValid(body)
       THEN Finish(p, "ValidationFails")
       ELSE /\ proc' = [proc EXCEPT ![p] =
                  [Idle EXCEPT !.pc = "findProvider", !.handler = "store",
                     !.userId = u, !.provider_id = body.provider_id,
                     !.date = body.date,
                     !.blocker = SlotHolder(body.provider_id,
                                            startOfHour(body.date))]]
            /\ outcome' = [outcome EXCEPT ![p] = "none"]
  /\ UNCHANGED <<schedule, version, now, bookings, notifications, queue>>

\* part_001 lines 72-79; part_000 has no such check
selfCheck(provider_id, userId) ==
  version = "part_001" /\ ~(provider_id # userId)

\* store, lines 57-88: provider lookup, self check, past-date check
StoreFindProvider(p) ==
  /\ proc[p].pc = "findProvider"
  /\ LET hs == startOfHour(proc[p].date) IN
     IF ~isProvider(proc[p].provider_id)
     THEN Finish(p, "NotAProvider")
     ELSE IF selfCheck(proc[p].provider_id, proc[p].userId)
     THEN Finish(p, "SelfBookingNotAllowed")
     ELSE IF isBefore(hs, now)
     THEN Finish(p, "PastDate")
     ELSE Goto(p, [proc[p] EXCEPT !.pc = "checkAvailability",
                                  !.hourStart = hs, !.readNow = now])
  /\ UNCHANGED <<schedule, version, now, bookings, notifications, queue, issued>>

\* the rows of the slot that the filter canceled_at: null (line 96) leaves
\* out of the availability query
cancelledOn(provider_id, date) ==
  {i \in DOMAIN bookings :
     /\ bookings[i].provider_id = provider_id
     /\ bookings[i].date = date
     /\ bookings[i].canceled_at # Null}

\* store, lines 90-105: the availability query and its test
StoreCheckAvailability(p) ==
  /\ proc[p].pc = "checkAvailability"
  /\ IF checkAvailability(proc[p].provider_id, proc[p].hourStart)
     THEN Finish(p, "SlotUnavailable")
     ELSE Goto(p, [proc[p] EXCEPT
                     !.pc = "create",
                     !.freed = cancelledOn(proc[p].provider_id,
                                           proc[p].hourStart) # {}])
  /\ UNCHANGED <<schedule, version, now, bookings, notifications, queue, issued>>

\* store, lines 107-114: Apointment.create; part_000 then answers (line 100)
StoreCreate(p) ==
  /\ proc[p].pc = "create"
  /\ LET id == Len(bookings) + 1 IN
     /\ bookings' = Append(bookings,
            [id |-> id, user_id |-> proc[p].userId,
             provider_id |-> proc[p].provider_id, date |-> proc[p].hourStart,
             canceled_at |-> Null])
     /\ IF version = "part_000"
        THEN Finish(p, "ok")
        ELSE Goto(p, [proc[p] EXCEPT !.pc = "findUser", !.apointment = id])
  /\ UNCHANGED <<schedule, version, now, notifications, queue, issued>>

\* store, lines 116-124: User.findByPk of the requester and the formatting of
\* the date.  When the lookup rejects, or gives null so that user.name
\* (line 127) is a TypeError, the handler throws before Notification.create
\* is called.
StoreFindUser(p) ==
  /\ proc[p].pc = "findUser"
  /\ \E found \in BOOLEAN :
       IF found
       THEN Goto(p, [proc[p] EXCEPT !.pc = "notify"])
       ELSE Finish(p, "threw")
  /\ UNCHANGED <<schedule, version, now, bookings, notifications, queue, issued>>

\* store, lines 126-131: Notification.create is awaited; when it rejects
\* the handler throws and res.json(apointment) is never reached
StoreNotify(p) ==
  /\ proc[p].pc = "notify"
  /\ \E delivered \in BOOLEAN :
       IF delivered
       THEN /\ notifications' = Append(notifications,
                  [user |-> proc[p].provider_id, from |-> proc[p].userId,
                   date |-> proc[p].hourStart])
            /\ Finish(p, "ok")
       ELSE /\ UNCHANGED notifications
            /\ Finish(p, "threw")
  /\ UNCHANGED <<schedule, version, now, bookings, queue, issued>>

\* delete, line 134: a cancel request arrives (part_000 has no delete)
DeleteRequest(p) ==
  /\ version = "part_001"
  /\ Free(p)
  /\ issued < MaxRequests
  /\ issued' = issued + 1
  /\ \E u \in Users, id \in 1..(Len(bookings) + 1) :
       proc' = [proc EXCEPT ![p] =
                  [Idle EXCEPT !.pc = "findByPk", !.handler = "delete",
                               !.userId = u, !.id = id]]
  /\ outcome' = [outcome EXCEPT ![p] = "none"]
  /\ UNCHANGED <<schedule, version, now, bookings, notifications, queue>>

\* delete, lines 135-164: load, ownership check, lead-time check, and the
\* assignment to canceled_at on the loaded instance.  findByPk gives null
\* for an unknown id and line 150 then throws a TypeError.  The clock is
\* read twice, for the check (line 158) and for canceled_at (line 164): the
\* second reading is the same tick or the next one.
DeleteFind(p) ==
  /\ proc[p].pc = "findByPk"
  /\ LET row == findByPk(proc[p].id) IN
     IF row = NoRow
     THEN Finish(p, "threw") /\ UNCHANGED now
     ELSE IF notOwner(row, proc[p].userId)
     THEN Finish(p, "NotOwner") /\ UNCHANGED now
     ELSE IF isBefore(subHours(row.date, CancelLeadHours), now)
     THEN Finish(p, "TooLateToCancel") /\ UNCHANGED now
     ELSE \E later \in {t \in {now, now + 1} : t <= MaxTime} :
            /\ now' = later
            /\ Goto(p, [proc[p] EXCEPT
                          !.pc = "save", !.readNow = now,
                          !.appointment = [row EXCEPT !.canceled_at = later]])
  /\ UNCHANGED <<schedule, version, bookings, notifications, queue, issued>>

DeleteSave_lastRow(p) ==
  /\ proc[p].pc = "save"
  /\ bookings' = [bookings EXCEPT ![Len(bookings)].canceled_at =
                     proc[p].appointment.canceled_at]
  /\ Goto(p, [proc[p] EXCEPT !.pc = "queueAdd"])
  /\ UNCHANGED <<schedule, version, now, notifications, queue, issued>>

DeleteSave_nothing(p) ==
  /\ proc[p].pc = "save"
  /\ Goto(p, [proc[p] EXCEPT !.pc = "queueAdd"])
  /\ UNCHANGED <<schedule, version, now, bookings, notifications, queue, issued>>

\* delete, line 166: appointment.save() writes the changed column
DeleteSave(p) ==
  /\ proc[p].pc = "save"
  /\ bookings' = [bookings EXCEPT ![proc[p].appointment.id].canceled_at =
                     proc[p].appointment.canceled_at]
  /\ Goto(p, [proc[p] EXCEPT !.pc = "queueAdd"])
  /\ UNCHANGED <<schedule, version, now, notifications, queue, issued>>

\* delete, lines 168-170: Queue.add is awaited; when it rejects the handler
\* throws and res.json(appointment) is never reached
DeleteQueueAdd(p) ==
  /\ proc[p].pc = "queueAdd"
  /\ \E accepted \in BOOLEAN :
       IF accepted
       THEN /\ queue' = Append(queue, proc[p].appointment)
            /\ Finish(p, "ok")
       ELSE /\ UNCHANGED queue
            /\ Finish(p, "threw")
  /\ UNCHANGED <<schedule, version, now, bookings, notifications, issued>>

Next ==
  \/ Tick
  \/ \E p \in Procs : StoreRequest(p)
  \/ \E p \in Procs : StoreFindProvider(p)
  \/ \E p \in Procs : StoreCheckAvailability(p)
  \/ \E p \in Procs : StoreCreate(p)
  \/ \E p \in Procs : StoreFindUser(p)
  \/ \E p \in Procs : StoreNotify(p)
  \/ \E p \in Procs : DeleteRequest(p)
  \/ \E p \in Procs : DeleteFind(p)
  \/ \E p \in Procs : DeleteSave(p)
  \/ \E p \in Procs : DeleteQueueAdd(p)

Spec == Init /\ [][Next]_vars

\* ---- ScheduleController ---------------------------------------------
\* Apointment.findAll({ where: { provider_id, canceled_at: null,
\*                               date: { [Op.between]: [from, to] } } })
findAll(provider_id, from, to) ==
  {bookings[i] : i \in {j \in DOMAIN bookings :
                          /\ bookings[j].provider_id = provider_id
                          /\ bookings[j].canceled_at = Null
                          /\ from <= bookings[j].date
                          /\ bookings[j].date <= to}}

\* req.query.date of a listing: the first, second and last instant of a day
QueryDates ==
  {d * DayTicks + o : d \in 0..(ScheduleDays - 1), o \in {0, 1, DayTicks - 1}}

\* index, line 8: a listing request arrives
ScheduleRequest(p) ==
  /\ Free(p)
  /\ issued < MaxListings
  /\ issued' = issued + 1
  /\ \E u \in Users, d \in QueryDates :
       proc' = [proc EXCEPT ![p] =
                  [Idle EXCEPT !.pc = "findOne", !.handler = "schedule",
                               !.userId = u, !.date = d]]
  /\ outcome' = [outcome EXCEPT ![p] = "none"]
  /\ schedule' = [schedule EXCEPT ![p] = {}]
  /\ UNCHANGED <<version, now, bookings, notifications, queue>>

\* index, lines 9-18: User.findOne is awaited; when it rejects the handler
\* throws, and a caller that is no provider is answered with the error
ScheduleFindOne(p) ==
  /\ proc[p].pc = "findOne"
  /\ \E found \in BOOLEAN :
       IF ~found
       THEN Finish(p, "threw")
       ELSE IF ~isProvider(proc[p].userId)
       THEN Finish(p, "UserNotProvider")
       ELSE Goto(p, [proc[p] EXCEPT !.pc = "findAll"])
  /\ UNCHANGED <<schedule, version, now, bookings, notifications, queue, issued>>

\* index, lines 20-30: the query and the answer
ScheduleFindAll(p) ==
  /\ proc[p].pc = "findAll"
  /\ schedule' = [schedule EXCEPT ![p] =
        findAll(proc[p].userId, startOfDay(proc[p].date),
                endOfDay(proc[p].date))]
  /\ Finish(p, "ok")
  /\ UNCHANGED <<version, now, bookings, notifications, queue, issued>>

\* the dates of the stored bookings a listing is tried on: the first, second
\* and last hour of a day
ScheduleDates ==
  {d * DayTicks + h * HourTicks :
     d \in 0..(ScheduleDays - 1), h \in {0, 1, DayHours - 1}}

\* rows store can have created and delete cancelled
ScheduleRows ==
  {r \in [id : {0}, user_id : Users, provider_id : Providers,
          date : ScheduleDates, canceled_at : {Null, 0}] :
     /\ r.user_id # r.provider_id
     /\ r.canceled_at # Null
          => \E readNow \in {t \in {r.canceled_at - 1, r.canceled_at} : t >= 0} :
                ~isBefore(subHours(r.date, CancelLeadHours), readNow)}

\* the tables of up to MaxBookings such rows, ids in order of creation
ScheduleTables ==
  UNION {[1..n -> ScheduleRows] : n \in 0..MaxBookings}

\* a table of bookings is in place when the listings start
InitSchedule ==
  /\ version = "part_001"
  /\ now = 0
  /\ \E t \in ScheduleTables :
        bookings = [i \in DOMAIN t |-> [t[i] EXCEPT !.id = i]]
  /\ notifications = <<>>
  /\ queue = <<>>
  /\ issued = 0
  /\ proc = [p \in Procs |-> Idle]
  /\ outcome = [p \in Procs |-> "none"]
  /\ schedule = [p \in Procs |-> {}]

NextSchedule ==
  \/ \E p \in Procs : ScheduleRequest(p)
  \/ \E p \in Procs : ScheduleFindOne(p)
  \/ \E p \in Procs : ScheduleFindAll(p)

SpecSchedule == InitSchedule /\ [][NextSchedule]_vars

\* ---- what the claims speak of ------------------------------------------
Active(i) == bookings[i].canceled_at = Null

\* request p returns or throws in this step
Ends(p) == proc[p].pc # "idle" /\ proc'[p].pc = "idle"

\* request p leaves the position at in this step
Leaves(p, at) == proc[p].pc = at /\ proc'[p].pc # at

\* jobs in the cancellation queue that carry booking i
Jobs(i) == Cardinality({k \in DOMAIN queue : queue[k].id = i})

\* every booking has a requester other than its provider and its request
\* was answered with the booking
AllAnswered ==
  /\ \A i \in DOMAIN bookings : bookings[i].user_id # bookings[i].provider_id
  /\ \A q \in Procs : proc[q].handler = "store" => proc[q].apointment = 0
  /\ version = "part_001" => Len(notifications) = Len(bookings)

\* C1: at most one active booking per (provider, hour), whatever the
\* interleaving of booking and cancel requests.
C1_OneActivePerSlot ==
  \A i, j \in DOMAIN bookings :
     (/\ i # j
      /\ Active(i) /\ Active(j)
      /\ bookings[i].provider_id = bookings[j].provider_id)
     => bookings[i].date # bookings[j].date

\* C2 as stated: a booking request that arrived while an answered booking
\* held its slot, and ends while that booking is still active, ends with
\* SlotUnavailable and adds no row.
C2_SecondRequestSlotUnavailable ==
  [][\A p \in Procs :
       (/\ Ends(p)
        /\ proc[p].handler = "store"
        /\ proc[p].blocker # 0
        /\ Active(proc[p].blocker)
        /\ AllAnswered)
       => (outcome'[p] = "SlotUnavailable" /\ bookings' = bookings)]_vars

\* C2 amended: such a request adds no row and ends with SlotUnavailable,
\* unless an earlier check rejects it: SelfBookingNotAllowed when the
\* requester is the provider, PastDate when the hour is already past.
C2_SecondRequestFails ==
  [][\A p \in Procs :
       (/\ Ends(p)
        /\ proc[p].handler = "store"
        /\ proc[p].blocker # 0
        /\ Active(proc[p].blocker))
       => /\ bookings' = bookings
          /\ \/ outcome'[p] = "SlotUnavailable"
             \/ /\ outcome'[p] = "SelfBookingNotAllowed"
                /\ proc[p].userId = proc[p].provider_id
             \/ /\ outcome'[p] = "PastDate"
                /\ proc[p].date - (proc[p].date % HourTicks) < now]_vars

\* a second request for a held slot was answered SlotUnavailable
C2_Witness ==
  \E p \in Procs :
     /\ outcome[p] = "SlotUnavailable"
     /\ \E i \in DOMAIN bookings : Active(i)

\* C3: canceled_at, once set, keeps its value.
C3_CanceledAtFinal ==
  [][\A i \in DOMAIN bookings :
       ~Active(i) => bookings'[i].canceled_at = bookings[i].canceled_at]_vars

\* C4: never two cancellation jobs for one booking, and none for a booking
\* that is not cancelled.
C4_OneJobPerCancelled ==
  \A i \in DOMAIN bookings :
     /\ Jobs(i) <= 1
     /\ Jobs(i) = 1 => ~Active(i)

\* C5: once the row is written the caller gets the booking, whatever
\* becomes of the notification, and the row stays.
C5_NotifyFailureIgnored ==
  [][\A p \in Procs :
       (Ends(p) /\ proc[p].handler = "store" /\ proc[p].apointment # 0)
       => (outcome'[p] = "ok" /\ proc[p].apointment \in DOMAIN bookings')]_vars

\* C6: a cancel of an unknown id ends with NotFound, changes no row and
\* enqueues nothing.
C6_UnknownIdNotFound ==
  [][\A p \in Procs :
       (Leaves(p, "findByPk") /\ proc[p].id \notin DOMAIN bookings)
       => /\ outcome'[p] = "NotFound"
          /\ bookings' = bookings
          /\ queue' = queue]_vars

\* the lead-time check of request p is made in this step: the booking
\* exists and p is its requester
LeadTimeChecked(p) ==
  /\ Leaves(p, "findByPk")
  /\ proc[p].id \in DOMAIN bookings
  /\ bookings[proc[p].id].user_id = proc[p].userId

\* C7 as stated: TooLateToCancel exactly when scheduledAt - 2h <= now.
C7_TooLateAtOrBefore ==
  [][\A p \in Procs :
       LeadTimeChecked(p)
       => (outcome'[p] = "TooLateToCancel"
             <=> bookings[proc[p].id].date - 2 * HourTicks <= now)]_vars

\* C7 amended: TooLateToCancel exactly when scheduledAt - 2h < now, leaving
\* the table and the queue as they were; when scheduledAt - 2h >= now the
\* cancel goes on to write into canceled_at the clock read after the check,
\* which is not earlier than the value the check read.
C7_TooLateStrictlyBefore ==
  [][\A p \in Procs :
       LeadTimeChecked(p)
       => LET late == bookings[proc[p].id].date - 2 * HourTicks < now IN
          /\ late => /\ outcome'[p] = "TooLateToCancel"
                     /\ proc'[p].pc = "idle"
                     /\ bookings' = bookings
                     /\ queue' = queue
          /\ ~late => /\ proc'[p].pc = "save"
                      /\ proc'[p].appointment.id = proc[p].id
                      /\ proc'[p].appointment.canceled_at = now'
                      /\ now' >= now
                      /\ outcome'[p] = "none"]_vars

\* a cancel made exactly two hours ahead passed the check
C7_Witness ==
  \E p \in Procs :
     /\ proc[p].pc = "save"
     /\ proc[p].appointment.date - 2 * HourTicks = proc[p].readNow

\* C8: a cancel by anyone but the booking's requester ends with NotOwner,
\* changes no row and enqueues nothing.
C8_OnlyRequesterCancels ==
  [][\A p \in Procs :
       (/\ Leaves(p, "findByPk")
        /\ proc[p].id \in DOMAIN bookings
        /\ bookings[proc[p].id].user_id # proc[p].userId)
       => /\ outcome'[p] = "NotOwner"
          /\ proc'[p].pc = "idle"
          /\ bookings' = bookings
          /\ queue' = queue]_vars

\* a cancel was refused with NotOwner and the booking is still active
C8_Witness ==
  \E p \in Procs :
     /\ outcome[p] = "NotOwner"
     /\ bookings # <<>>
     /\ \A i \in DOMAIN bookings : Active(i)
     /\ queue = <<>>

\* C9: no stored booking has the requester as its provider.
C9_NoSelfBooking ==
  \A i \in DOMAIN bookings : bookings[i].user_id # bookings[i].provider_id

\* C10 as stated: a row is written with a date strictly after the clock at
\* that moment.
C10_StrictlyFutureAtCreation ==
  [][\A i \in DOMAIN bookings' :
       i \notin DOMAIN bookings => bookings'[i].date > now]_vars

\* C10 amended: a row is written with a date not before the clock value its
\* request's past-date check read.
C10_NotBeforeCheckedClock ==
  [][\A p \in Procs :
       Leaves(p, "create")
       => /\ Len(bookings') = Len(bookings) + 1
          /\ bookings'[Len(bookings')].date >= proc[p].readNow]_vars

\* a booking for the very instant of its past-date check was written
C10_Witness ==
  \E p \in Procs :
     /\ proc[p].pc = "notify"
     /\ bookings[proc[p].apointment].date = proc[p].readNow

\* C11: once canceled_at is saved the caller gets the updated booking,
\* whatever becomes of the enqueue.
C11_EnqueueFailureIgnored ==
  [][\A p \in Procs :
       (Ends(p) /\ proc[p].pc = "queueAdd")
       => outcome'[p] = "ok"]_vars

\* C12: a request that ends in an error has written nothing: no row, no
\* canceled_at, no notification, no job.
C12_NoEffectOnError ==
  [][\A p \in Procs :
       (Ends(p) /\ outcome'[p] # "ok")
       => /\ proc[p].apointment = 0
          /\ proc[p].pc # "queueAdd"
          /\ bookings' = bookings
          /\ notifications' = notifications
          /\ queue' = queue]_vars

\* C13: rows are never removed, and a cancel that was answered with the
\* booking leaves the row findable by id with canceled_at set.
C13_CancelKeepsRow ==
  [][/\ DOMAIN bookings \subseteq DOMAIN bookings'
     /\ \A p \in Procs :
          (Ends(p) /\ proc[p].handler = "delete" /\ outcome'[p] = "ok")
          => /\ proc[p].id \in DOMAIN bookings'
             /\ bookings'[proc[p].id].id = proc[p].id
             /\ bookings'[proc[p].id].canceled_at # Null]_vars

\* a cancel was answered with the booking, which is stored as cancelled
C13_Witness ==
  \E p \in Procs :
     /\ outcome[p] = "ok"
     /\ queue # <<>>
     /\ \A k \in DOMAIN queue :
          /\ queue[k].id \in DOMAIN bookings
          /\ ~Active(queue[k].id)

\* the notification the provider of booking i is due
NotificationFor(i) ==
  [user |-> bookings[i].provider_id, from |-> bookings[i].user_id,
   date |-> bookings[i].date]

\* C14: once no booking request is between its create and its answer,
\* every booking has exactly one notification, addressed to its provider,
\* and there is no notification that belongs to no booking.
C14_OneNotificationPerBooking ==
  (\A p \in Procs : proc[p].pc \notin {"findUser", "notify"})
  => /\ Len(notifications) = Len(bookings)
     /\ \A i \in DOMAIN bookings :
          \E k \in DOMAIN notifications : notifications[k] = NotificationFor(i)

\* the first rule of NotAProvider, SelfBookingNotAllowed, PastDate that the
\* booking request p breaks, "none" if it breaks none of them
FirstBroken(p) ==
  IF proc[p].provider_id \notin Providers THEN "NotAProvider"
  ELSE IF proc[p].userId = proc[p].provider_id THEN "SelfBookingNotAllowed"
  ELSE IF proc[p].date - (proc[p].date % HourTicks) < now THEN "PastDate"
  ELSE "none"

\* C15: a booking request is answered with the first rule it breaks, in the
\* order NotAProvider, SelfBookingNotAllowed, PastDate, SlotUnavailable, and
\* with the booking when it breaks none.
C15_ChecksInOrder ==
  [][\A p \in Procs :
       /\ Leaves(p, "findProvider")
            => IF FirstBroken(p) = "none"
               THEN proc'[p].pc = "checkAvailability"
               ELSE Ends(p) /\ outcome'[p] = FirstBroken(p)
       /\ Leaves(p, "checkAvailability")
            => IF SlotHolder(proc[p].provider_id, proc[p].hourStart) # 0
               THEN Ends(p) /\ outcome'[p] = "SlotUnavailable"
               ELSE proc'[p].pc = "create"
       /\ (Ends(p) /\ proc[p].pc \in {"create", "findUser", "notify"})
            => outcome'[p] = "ok"]_vars

\* a cancelled booking lies on the slot and no active one does
FreedSlot(provider_id, date) ==
  /\ \E i \in DOMAIN bookings :
        /\ bookings[i].provider_id = provider_id
        /\ bookings[i].date = date
        /\ ~Active(i)
  /\ \A i \in DOMAIN bookings :
        (bookings[i].provider_id = provider_id /\ bookings[i].date = date)
        => ~Active(i)

\* C16: a booking request that reaches the availability check for a slot
\* whose bookings are all cancelled passes it, its create adds an active
\* booking on that slot and leaves every stored row, the cancelled one
\* included, as it was, and the request is answered with the booking.
C16_CancelledSlotIsFree ==
  [][\A p \in Procs :
       /\ FreedSlot(proc[p].provider_id, proc[p].hourStart)
          => /\ Leaves(p, "checkAvailability")
                  => proc'[p].pc = "create" /\ bookings' = bookings
             /\ Leaves(p, "create")
                  => /\ Len(bookings') = Len(bookings) + 1
                     /\ \A i \in DOMAIN bookings : bookings'[i] = bookings[i]
                     /\ LET new == bookings'[Len(bookings')] IN
                        /\ new.provider_id = proc[p].provider_id
                        /\ new.date = proc[p].hourStart
                        /\ new.user_id = proc[p].userId
                        /\ new.canceled_at = Null
       /\ (Ends(p) /\ proc[p].freed) => outcome'[p] = "ok"]_vars

\* C17: every stored date is the start of an hour; a booking request past
\* its date checks holds the start of the hour of its raw date, that value
\* passed the past-date check and the availability check, and it is the
\* value stored.
C17_HourAligned ==
  /\ \A i \in DOMAIN bookings : bookings[i].date % HourTicks = 0
  /\ \A p \in Procs :
        proc[p].pc \in {"checkAvailability", "create", "findUser", "notify"}
        => /\ proc[p].hourStart % HourTicks = 0
           /\ proc[p].hourStart <= proc[p].date
           /\ proc[p].date < proc[p].hourStart + HourTicks
           /\ proc[p].readNow <= proc[p].hourStart
  /\ \A p \in Procs :
        (proc[p].pc \in {"create", "findUser", "notify"} /\ proc[p].blocker # 0)
        => ~Active(proc[p].blocker)
  /\ \A p \in Procs :
        proc[p].pc \in {"findUser", "notify"}
        => bookings[proc[p].apointment].date = proc[p].hourStart

\* a request for a time inside an hour was stored at the start of the hour
C17_Witness ==
  \E p \in Procs :
     /\ proc[p].pc = "notify"
     /\ proc[p].date % HourTicks # 0
     /\ bookings[proc[p].apointment].date < proc[p].date

\* C18: no step changes the id, requester, provider or date of a stored
\* booking, and a row changes only in the save of the cancel request that
\* names it.
C18_CancelTouchesOnlyCanceledAt ==
  [][\A i \in DOMAIN bookings :
       /\ i \in DOMAIN bookings'
       /\ bookings'[i].id = bookings[i].id
       /\ bookings'[i].user_id = bookings[i].user_id
       /\ bookings'[i].provider_id = bookings[i].provider_id
       /\ bookings'[i].date = bookings[i].date
       /\ bookings'[i] # bookings[i]
            => \E p \in Procs : Leaves(p, "save") /\ proc[p].id = i]_vars

\* one of two bookings was cancelled and the other is as it was created
C18_Witness ==
  \E p \in Procs :
     /\ proc[p].pc = "queueAdd"
     /\ Len(bookings) = 2
     /\ ~Active(proc[p].id)
     /\ \E j \in DOMAIN bookings : j # proc[p].id /\ Active(j)

\* C20: startOfHour is idempotent, and the hour it gives starts at or before
\* the time and ends after it: for the raw date t of every request that
\* passed line 84, with h = startOfHour(t), startOfHour(h) = h and
\* h <= t < h + 1 hour.
C20_NormalizeIdempotent ==
  \A p \in Procs :
     proc[p].hourStart # Null
     => /\ startOfHour(proc[p].hourStart) = proc[p].hourStart
        /\ startOfHour(startOfHour(proc[p].date)) = startOfHour(proc[p].date)
        /\ proc[p].hourStart <= proc[p].date
        /\ proc[p].date < proc[p].hourStart + HourTicks

\* the hour of a time in its last tick was taken
C20_Witness ==
  \E p \in Procs :
     /\ proc[p].pc = "checkAvailability"
     /\ proc[p].date = proc[p].hourStart + HourTicks - 1

\* C19: a listing asked by a provider for a day gives exactly the active
\* bookings of that provider whose date lies in that day; a listing asked
\* by anyone else is refused and gives no booking, and so does a listing
\* that ends in any error.
C19_ScheduleOfTheDay ==
  [][\A p \in Procs :
       /\ Leaves(p, "findOne")
            => IF proc[p].userId \in Providers
               THEN \/ proc'[p].pc = "findAll" /\ proc'[p].userId = proc[p].userId
                    \/ Ends(p) /\ outcome'[p] = "threw"
               ELSE Ends(p) /\ outcome'[p] \in {"UserNotProvider", "threw"}
       /\ Leaves(p, "findAll")
            => /\ outcome'[p] = "ok"
               /\ schedule'[p] =
                    {bookings[i] : i \in {j \in DOMAIN bookings :
                        /\ bookings[j].provider_id = proc[p].userId
                        /\ Active(j)
                        /\ bookings[j].date \div DayTicks
                             = proc[p].date \div DayTicks}}
       /\ schedule'[p] # {} => Leaves(p, "findAll") \/ schedule'[p] = schedule[p]
       /\ outcome'[p] # "ok" => schedule'[p] = {}]_vars

\* a provider got a day's bookings, without the one that starts with the
\* next day, the cancelled one or another provider's
C19_Witness ==
  \E p \in Procs :
     /\ outcome[p] = "ok"
     /\ schedule[p] # {}
     /\ \E i \in DOMAIN bookings :
          /\ bookings[i] \notin schedule[p]
          /\ Active(i)
          /\ \E r \in schedule[p] :
               /\ r.provider_id = bookings[i].provider_id
               /\ bookings[i].date = endOfDay(r.date) + 1
====
